---- MODULE Spec2Model ----
(***************************************************************************)
(* Model of the Datadog provider's monitor-config-policy resource          *)
(* (resource_datadog_monitor_config_policy.go) and of the service level    *)
(* objectives data source (data_source_datadog_service_level_objectives).  *)
(*                                                                         *)
(* The remote API is an environment: every call draws its outcome          *)
(* (success, HTTP error, transport error, unknown fields in the response)  *)
(* from a small set.  On success the server stores what the request        *)
(* carries and answers with what it stores.                                *)
(*                                                                         *)
(* schema.ResourceData is modelled by what the handlers use of it:         *)
(*   d.Get(k)   the configured value under k                               *)
(*   d.GetOk(k) the value, and ok iff it differs from the type's zero value*)
(*   d.Set(k,v) / d.SetId(v) store v                                       *)
(* A Go run-time panic (nil dereference, failed type assertion) is the     *)
(* return kind "panic".                                                    *)
(***************************************************************************)
EXTENDS Integers, Sequences, FiniteSets, TLC

VARIABLES
    cfg,      \* policy resource: configuration supplied by the host
    dId,      \* policy resource: d.Id()
    state,    \* policy resource: attributes written with d.Set
    srv,      \* monitor config policies held by the remote API
    last,     \* policy resource: observation of the latest handler run
    dsCfg,         \* SLO data source: configuration supplied by the host
    dsSlos,        \* SLO data source: the computed attribute "slos"
    dsId,          \* SLO data source: d.Id()
    pc,            \* SLO data source read: "idle", "search" (in the loop), "done"
    pageNumber,    \* searchSLO: pageNumber
    allSlosPages,  \* searchSLO: allSlosPages
    diags,         \* searchSLO: diags
    calls,         \* the API calls the read has issued, with their responses
    ret,           \* the diagnostics the read returned
    pair           \* two queries and the keys hashed into their identities

pvars == <<cfg, dId, state, srv, last>>
svars == <<dsCfg, dsSlos, dsId, pc, pageNumber, allSlosPages, diags, calls, ret>>
vars  == <<pvars, svars, pair>>

----------------------------------------------------------------------------
(* Bounds and value domains                                                *)

MaxTagValues == 2

PolicyTypes == {"tag", "slo"}          \* "slo" stands for any unmapped value
TagKeys     == {"", "env"}
TagValues   == {"prod", "staging"}
PolicyIds   == {"p1", "p2"}

SeqUpTo(S, n) == UNION {[1..k -> S] : k \in 0..n}

Unset   == [set |-> FALSE]
Some(x) == [set |-> TRUE, v |-> x]

Nil   == [kind |-> "nil"]
Panic == [kind |-> "panic"]

\* Return values of a handler.
DiagOk         == [kind |-> "ok", summary |-> ""]
DiagError(msg) == [kind |-> "error", summary |-> msg]
DiagPanic      == [kind |-> "panic", summary |-> ""]

----------------------------------------------------------------------------
(* Schema and configuration access                                         *)

PolicyConfigs ==
    [policy_type      : PolicyTypes,
     tag_key          : TagKeys,
     tag_key_required : BOOLEAN,
     valid_tag_values : SeqUpTo(TagValues, MaxTagValues)]

\* Go type of the value d.Get / d.GetOk hands back for a key.
SchemaType(key) ==
    CASE key = "policy_type"      -> "string"
      [] key = "tag_key"          -> "string"
      [] key = "tag_key_required" -> "bool"
      [] key = "valid_tag_values" -> "list"

ZeroValue(key) ==
    CASE SchemaType(key) = "string" -> ""
      [] SchemaType(key) = "bool"   -> FALSE
      [] SchemaType(key) = "list"   -> <<>>

\* d.Get(key)
Get(c, key) == c[key]

\* d.GetOk(key): ok iff the value is set to something other than the zero value
GetOk(c, key) == [attr |-> c[key], type |-> SchemaType(key), ok |-> c[key] # ZeroValue(key)]

\* datadogV2.NewMonitorConfigPolicyTypeFromValue: a pointer to the enum value,
\* or nil (with an error the callers discard) when the value is not in the enum
NewMonitorConfigPolicyTypeFromValue(v) == IF v = "tag" THEN v ELSE "nil"

----------------------------------------------------------------------------
(* Request builders                                                        *)

\* Variant of buildCreateRequestPolicy that loses the list of valid values
buildCreateRequestPolicy_DropsValues(c, policyType) ==
    IF policyType = "tag"
    THEN [kind             |-> "tag_policy",
          tag_key          |-> Get(c, "tag_key"),
          tag_key_required |-> Get(c, "tag_key_required"),
          valid_tag_values |-> <<>>]
    ELSE Nil

buildCreateRequestPolicy(c, policyType) ==
    IF policyType = "tag"
    THEN [kind             |-> "tag_policy",
          tag_key          |-> Get(c, "tag_key"),
          tag_key_required |-> Get(c, "tag_key_required"),
          valid_tag_values |-> Get(c, "valid_tag_values")]
    ELSE Nil

\* Panics when policyType or the built policy is nil: both are dereferenced.
buildMonitorConfigPolicyCreateV2Struct(c) ==
    LET policyType == NewMonitorConfigPolicyTypeFromValue(Get(c, "policy_type"))
    IN  IF policyType = "nil" THEN Panic
        ELSE LET policy == buildCreateRequestPolicy(c, policyType)
             IN  IF policy = Nil THEN Panic
                 ELSE [kind        |-> "create_request",
                       policy_type |-> policyType,
                       policy      |-> policy,
                       type        |-> "monitor-config-policy",
                       unparsed    |-> FALSE]

\* attr.(bool) on the value read under a key
AssertBool(r) == IF r.type = "bool" THEN Some(r.attr) ELSE Panic

buildUpdateRequestPolicy(c, policyType) ==
    IF policyType = "tag"
    THEN LET k1 == GetOk(c, "tag_key")
             k2 == GetOk(c, "tag_key")            \* line 80 reads "tag_key" again
             k3 == GetOk(c, "valid_tag_values")   \* collected, then dropped
             tagKey == IF k1.ok THEN Some(k1.attr) ELSE Unset
             tagKeyRequired == IF k2.ok THEN AssertBool(k2) ELSE Unset
         IN  IF tagKeyRequired = Panic THEN Panic
             ELSE [kind             |-> "tag_policy",
                   tag_key          |-> tagKey,
                   tag_key_required |-> tagKeyRequired,
                   valid_tag_values |-> Unset]
    ELSE Nil

buildMonitorConfigPolicyUpdateV2Struct(c, id) ==
    LET policyType == NewMonitorConfigPolicyTypeFromValue(Get(c, "policy_type"))
    IN  IF policyType = "nil" THEN Panic
        ELSE LET policy == buildUpdateRequestPolicy(c, policyType)
             IN  IF policy = Nil \/ policy = Panic THEN Panic
                 ELSE [kind        |-> "edit_request",
                       id          |-> id,
                       policy_type |-> policyType,
                       policy      |-> policy,
                       type        |-> "monitor-config-policy",
                       unparsed    |-> FALSE]

\* utils.CheckForUnparsed: an error iff the decoder kept fields it could not map
CheckForUnparsed(obj) == obj.unparsed

----------------------------------------------------------------------------
(* The remote API (MonitorsApi of datadogV2)                               *)

\* What a call can come back with: the error, and the HTTP response that
\* TranslateClientErrorDiag and the 404 test look at (absent on a transport error).
ApiOk        == [err |-> FALSE, httpresp |-> TRUE,  status |-> 200]
ApiNotFound  == [err |-> TRUE,  httpresp |-> TRUE,  status |-> 404]
ApiHttpError == [err |-> TRUE,  httpresp |-> TRUE,  status |-> 500]
ApiTransport == [err |-> TRUE,  httpresp |-> FALSE, status |-> 0]

Found(s, id) == {e \in s : e.id = id}

\* Outcomes of a call that addresses the policy `id`
ByIdOutcomes(s, id) ==
    IF Found(s, id) # {} THEN {ApiOk, ApiHttpError, ApiTransport}
    ELSE {ApiNotFound, ApiHttpError, ApiTransport}

\* The policy a successful create stores and returns
CreatedEntity(m, id) ==
    [id |-> id, policy_type |-> m.policy_type, policy |-> m.policy]

\* The policy a successful edit stores and returns: only the fields the
\* request carries replace the stored ones
EditedEntity(e, m) ==
    [id          |-> e.id,
     policy_type |-> m.policy_type,
     policy      |->
        [kind             |-> "tag_policy",
         tag_key          |-> IF m.policy.tag_key.set
                              THEN m.policy.tag_key.v ELSE e.policy.tag_key,
         tag_key_required |-> IF m.policy.tag_key_required.set
                              THEN m.policy.tag_key_required.v
                              ELSE e.policy.tag_key_required,
         valid_tag_values |-> IF m.policy.valid_tag_values.set
                              THEN m.policy.valid_tag_values.v
                              ELSE e.policy.valid_tag_values]]

----------------------------------------------------------------------------
(* State population                                                        *)

NoState == [policy_type |-> Unset, tag_policy |-> Unset]

\* The (identity, attributes) pair that updateMonitorConfigPolicyState leaves
updateMonitorConfigPolicyState(st, m) ==
    [id    |-> m.id,
     state |-> [policy_type |-> Some(m.policy_type),
                tag_policy  |->
                    IF m.policy_type = "tag"
                    THEN Some([tag_key          |-> m.policy.tag_key,
                               tag_key_required |-> m.policy.tag_key_required,
                               valid_tag_values |-> m.policy.valid_tag_values])
                    ELSE st.tag_policy]]

----------------------------------------------------------------------------
(* Handlers of the policy resource                                         *)

NoReq == [kind |-> "none"]

Ran(op, result, called, api, req, unparsed) ==
    [op |-> op, result |-> result, called |-> called, api |-> api,
     req |-> req, respUnparsed |-> unparsed]

NoRun ==
    [op |-> "none", result |-> DiagOk, called |-> FALSE, api |-> ApiOk,
     req |-> NoReq, respUnparsed |-> FALSE]

\* The host changes one attribute of the resource's configuration.
Configure ==
    /\ \/ \E v \in PolicyTypes : cfg' = [cfg EXCEPT !.policy_type = v]
       \/ \E v \in TagKeys : cfg' = [cfg EXCEPT !.tag_key = v]
       \/ \E v \in BOOLEAN : cfg' = [cfg EXCEPT !.tag_key_required = v]
       \/ \E v \in SeqUpTo(TagValues, MaxTagValues) :
             cfg' = [cfg EXCEPT !.valid_tag_values = v]
    /\ cfg' # cfg
    /\ last' = NoRun
    /\ UNCHANGED <<dId, state, srv>>
    /\ UNCHANGED <<svars, pair>>

\* schema.ImportStatePassthroughContext: the identity is the imported id.
Import ==
    /\ dId = ""
    /\ \E id \in PolicyIds : dId' = id
    /\ last' = NoRun
    /\ UNCHANGED <<cfg, state, srv>>
    /\ UNCHANGED <<svars, pair>>

\* What a handler leaves behind: its diagnostics, d.Id() and the attributes
Outcome(result, id, st) == [result |-> result, id |-> id, state |-> st]

\* Variant of CreateAfterCall that does not look at the call's error
CreateAfterCall_IgnoresErr(st, id, m, api, mCreated) ==
    IF CheckForUnparsed(m)
    THEN Outcome(DiagError("unparsed object"), id, st)
    ELSE LET s == updateMonitorConfigPolicyState(st, mCreated.data)
         IN  Outcome(DiagOk, s.id, s.state)

\* resourceDatadogMonitorConfigPolicyCreate after the request m is built:
\* api is what CreateMonitorConfigPolicy came back with, mCreated its response.
CreateAfterCall(st, id, m, api, mCreated) ==
    IF api.err
    THEN Outcome(DiagError("error creating monitor config policy"), id, st)
    ELSE IF CheckForUnparsed(m)                  \* line 150 checks m, the request
         THEN Outcome(DiagError("unparsed object"), id, st)
         ELSE LET s == updateMonitorConfigPolicyState(st, mCreated.data)
              IN  Outcome(DiagOk, s.id, s.state)

resourceDatadogMonitorConfigPolicyCreate ==
    /\ dId = ""
    /\ LET m == buildMonitorConfigPolicyCreateV2Struct(cfg)
       IN  IF m = Panic
           THEN /\ last' = Ran("create", DiagPanic, FALSE, ApiOk, NoReq, FALSE)
                /\ UNCHANGED <<cfg, dId, state, srv>>
           ELSE \E api \in {ApiOk, ApiHttpError, ApiTransport} :
                \E id \in IF api.err THEN {""} ELSE {i \in PolicyIds : Found(srv, i) = {}} :
                \E unparsed \in IF api.err THEN {FALSE} ELSE BOOLEAN :
                LET data     == CreatedEntity(m, id)
                    mCreated == [data |-> data, unparsed |-> unparsed]
                    out      == CreateAfterCall(state, dId, m, api, mCreated)
                IN  /\ srv' = IF api.err THEN srv ELSE srv \cup {data}
                    /\ dId' = out.id
                    /\ state' = out.state
                    /\ last' = Ran("create", out.result, TRUE, api, m, unparsed)
                    /\ UNCHANGED cfg
    /\ UNCHANGED <<svars, pair>>

\* Variant of IsNotFound that takes every failed call for a 404
IsNotFound_AnyError(api) == api.err

\* The test of line 130 on a failed GetMonitorConfigPolicy
IsNotFound(api) == api.httpresp /\ api.status = 404

\* resourceDatadogMonitorConfigPolicyRead after the call; resp is the response
ReadAfterCall(st, id, api, resp) ==
    IF api.err
    THEN IF IsNotFound(api)
         THEN Outcome(DiagOk, "", st)
         ELSE Outcome(DiagError("error getting monitor config policy"), id, st)
    ELSE LET s == updateMonitorConfigPolicyState(st, resp.data)
         IN  Outcome(DiagOk, s.id, s.state)

NoData == [id |-> "", policy_type |-> "", policy |-> Nil]

resourceDatadogMonitorConfigPolicyRead ==
    /\ dId # ""
    /\ \E api \in ByIdOutcomes(srv, dId) :
       \E data \in IF api.err THEN {NoData} ELSE Found(srv, dId) :
       LET out == ReadAfterCall(state, dId, api, [data |-> data, unparsed |-> FALSE])
       IN  /\ dId' = out.id
           /\ state' = out.state
           /\ last' = Ran("read", out.result, TRUE, api, NoReq, FALSE)
           /\ UNCHANGED <<cfg, srv>>
    /\ UNCHANGED <<svars, pair>>

\* resourceDatadogMonitorConfigPolicyUpdate after the call
UpdateAfterCall(st, id, api, mUpdated) ==
    IF api.err
    THEN Outcome(DiagError("error updating monitor config policy"), id, st)
    ELSE IF CheckForUnparsed(mUpdated)
         THEN Outcome(DiagError("unparsed object"), id, st)
         ELSE LET s == updateMonitorConfigPolicyState(st, mUpdated.data)
              IN  Outcome(DiagOk, s.id, s.state)

resourceDatadogMonitorConfigPolicyUpdate ==
    /\ dId # ""
    /\ LET m == buildMonitorConfigPolicyUpdateV2Struct(cfg, dId)
       IN  IF m = Panic
           THEN /\ last' = Ran("update", DiagPanic, FALSE, ApiOk, NoReq, FALSE)
                /\ UNCHANGED <<cfg, dId, state, srv>>
           ELSE \E api \in ByIdOutcomes(srv, m.id) :
                \E e \in IF api.err THEN {NoData} ELSE Found(srv, m.id) :
                \E unparsed \in IF api.err THEN {FALSE} ELSE BOOLEAN :
                LET data     == IF api.err THEN NoData ELSE EditedEntity(e, m)
                    mUpdated == [data |-> data, unparsed |-> unparsed]
                    out      == UpdateAfterCall(state, dId, api, mUpdated)
                IN  /\ srv' = IF api.err THEN srv ELSE (srv \ {e}) \cup {data}
                    /\ dId' = out.id
                    /\ state' = out.state
                    /\ last' = Ran("update", out.result, TRUE, api, m, unparsed)
                    /\ UNCHANGED cfg
    /\ UNCHANGED <<svars, pair>>

resourceDatadogMonitorConfigPolicyDelete ==
    /\ dId # ""
    /\ \E api \in ByIdOutcomes(srv, dId) :
        IF api.err
        THEN /\ last' = Ran("delete",
                            DiagError("error deleting monitor config policy"),
                            TRUE, api, NoReq, FALSE)
             /\ UNCHANGED <<cfg, dId, state, srv>>
        ELSE /\ srv' = srv \ Found(srv, dId)
             /\ last' = Ran("delete", DiagOk, TRUE, api, NoReq, FALSE)
             /\ UNCHANGED <<cfg, dId, state>>
    /\ UNCHANGED <<svars, pair>>

PolicyInit ==
    /\ cfg \in PolicyConfigs
    /\ dId = ""
    /\ state = NoState
    /\ srv = {}
    /\ last = NoRun

\* The policy resource with no handler running, in the data source's runs
PolicyQuiet ==
    /\ cfg = [policy_type |-> "tag", tag_key |-> "", tag_key_required |-> FALSE,
              valid_tag_values |-> <<>>]
    /\ dId = ""
    /\ state = NoState
    /\ srv = {}
    /\ last = NoRun

PolicyNext ==
    \/ Configure
    \/ Import
    \/ resourceDatadogMonitorConfigPolicyCreate
    \/ resourceDatadogMonitorConfigPolicyRead
    \/ resourceDatadogMonitorConfigPolicyUpdate
    \/ resourceDatadogMonitorConfigPolicyDelete

----------------------------------------------------------------------------
(* Claims about the policy resource, checked under Spec                    *)

TagPolicyKeys == {"tag_key", "tag_key_required", "valid_tag_values"}

C2_Read404ClearsIdentity ==
    [][(last'.op = "read" /\ last'.api.err) =>
          IF last'.api.httpresp /\ last'.api.status = 404
          THEN dId' = "" /\ last'.result = DiagOk
          ELSE /\ last'.result = DiagError("error getting monitor config policy")
               /\ dId' = dId]_pvars

C2_Witness ==
    /\ last.op = "read"
    /\ last.api = ApiNotFound
    /\ last.result = DiagOk
    /\ dId = ""

C4_UpdateHonorsSetFields ==
    (last.op = "update" /\ cfg.policy_type = "tag") =>
        /\ last.called
        /\ \A k \in TagPolicyKeys :
              last.req.policy[k] =
                 IF cfg[k] # ZeroValue(k) THEN Some(cfg[k]) ELSE Unset

\* C5: a create or update whose API call succeeds with a response that holds
\* fields the client does not recognise returns an error and does not populate
\* the identity or the attributes from that response.
C5_UnknownFieldsRejected ==
    [][(/\ last'.op \in {"create", "update"}
        /\ last'.called
        /\ ~last'.api.err
        /\ last'.respUnparsed)
          => (last'.result.kind = "error" /\ dId' = dId /\ state' = state)]_pvars

\* C6: a create whose CreateMonitorConfigPolicy call fails returns an error
\* diagnostic, leaves the entity without an identity and leaves its attributes
\* unchanged.
C6_CreateErrorLeavesNoIdentity ==
    [][(last'.op = "create" /\ last'.called /\ last'.api.err) =>
          /\ last'.result = DiagError("error creating monitor config policy")
          /\ dId' = ""
          /\ state' = state]_pvars

C6_Witness ==
    /\ last.op = "create"
    /\ last.called
    /\ last.api.err
    /\ last.result.kind = "error"
    /\ dId = ""
    /\ state # NoState

----------------------------------------------------------------------------
(* SLO data source: values                                                 *)
(* A string is a sequence of characters, "" is <<>>.                       *)

MaxLast      == 1     \* largest "last page number" the server reports
MaxPageItems == 2     \* most SLOs in one page of the server
MaxStr       == 1     \* longest filter string of the two compared queries
MaxIds       == 2     \* most ids of the two compared queries
PageSize     == 100

Chars == {"a", "|"}

\* The SLOs the server can return; the third holds fields the client does not know
SloItems ==
    {[id |-> "s1", name |-> "n1", type |-> "metric",  unparsed |-> FALSE],
     [id |-> "s2", name |-> "n2", type |-> "monitor", unparsed |-> FALSE],
     [id |-> "s3", name |-> "n3", type |-> "metric",  unparsed |-> TRUE]}

\* A page holds an SLO at most once
SloPages ==
    {p \in SeqUpTo(SloItems, MaxPageItems) :
        \A i, j \in 1..Len(p) : i # j => p[i] # p[j]}

\* What SearchSLO can come back with
SearchFailed == [err |-> TRUE, slos |-> <<>>, last |-> 0]
SearchResponses ==
    {SearchFailed} \cup [err : {FALSE}, slos : SloPages, last : 0..MaxLast]

DsReadStrings == {<<>>, <<"a">>}
DsConfigs ==
    [ids                 : {<<>>, << <<"a">> >>},
     name_query          : DsReadStrings,
     tags_query          : DsReadStrings,
     metrics_query       : DsReadStrings,
     q                   : DsReadStrings,
     error_on_no_results : {Unset, Some(TRUE), Some(FALSE)}]

\* The configurations of the two compared queries
KeyStrings == SeqUpTo(Chars, MaxStr)
KeyConfigs ==
    [ids                 : SeqUpTo(KeyStrings \ {<<>>}, MaxIds),
     name_query          : KeyStrings,
     tags_query          : KeyStrings,
     metrics_query       : KeyStrings,
     q                   : KeyStrings,
     error_on_no_results : {Unset}]

----------------------------------------------------------------------------
(* SLO data source: configuration access                                   *)

\* d.Get(key): the configured value, or the schema's Default (line 49)
DsGet(c, key) ==
    IF key = "error_on_no_results"
    THEN IF c[key].set THEN c[key].v ELSE TRUE
    ELSE c[key]

DsZeroValue(key) == IF key = "error_on_no_results" THEN FALSE ELSE <<>>

\* d.GetOk(key): ok iff the value differs from the zero value of its type
DsGetOk(c, key) == [attr |-> DsGet(c, key), ok |-> DsGet(c, key) # DsZeroValue(key)]

\* Lines 94-98
errorOnNoResults(c) ==
    LET r == DsGetOk(c, "error_on_no_results")
    IN  IF r.ok THEN r.attr ELSE TRUE

RECURSIVE Join(_, _)
\* strings.Join(expandStringList(v), sep)
Join(list, sep) ==
    IF list = <<>> THEN <<>>
    ELSE IF Len(list) = 1 THEN list[1]
    ELSE list[1] \o sep \o Join(Tail(list), sep)

\* The pointer and request parameter set from one optional filter
FilterPtr(c, key) ==
    LET r == DsGetOk(c, key)
    IN  IF r.ok
        THEN Some(IF key = "ids" THEN Join(r.attr, <<",">>) ELSE r.attr)
        ELSE Unset

\* Lines 117-142: idsPtr, nameQueryPtr, tagsQueryPtr, metricsQueryPtr
ListPtrs(c) ==
    [ids           |-> FilterPtr(c, "ids"),
     name_query    |-> FilterPtr(c, "name_query"),
     tags_query    |-> FilterPtr(c, "tags_query"),
     metrics_query |-> FilterPtr(c, "metrics_query")]

----------------------------------------------------------------------------
(* SLO data source: identity                                               *)

\* fmt.Sprintf("%x", sha256(key)): the digest is not computed; it stands for
\* itself as the key it was taken of, so two identities differ iff the keys do.
Sha256Hex(key) == <<"sha256">> \o key

Deref(ptr) == IF ptr.set THEN ptr.v ELSE <<>>

\* Lines 236-253: keyStr
ListKeyStr(ids, nameQuery, tagsQuery, metricsQuery) ==
    Deref(ids) \o <<"|">> \o Deref(nameQuery) \o <<"|">> \o Deref(tagsQuery)
        \o <<"|">> \o Deref(metricsQuery)

computeSLOsDataSourceIDByListEndpointCall(ids, nameQuery, tagsQuery, metricsQuery) ==
    Sha256Hex(ListKeyStr(ids, nameQuery, tagsQuery, metricsQuery))

computeSLOsDataSourceIDbySearchEndpointCall(q) == Sha256Hex(q.v)

\* Variant of ResourceID that hashes the structured filters also when q is set
ResourceID_FromFilters(c) ==
    LET ptr == ListPtrs(c)
    IN  computeSLOsDataSourceIDByListEndpointCall(
            ptr.ids, ptr.name_query, ptr.tags_query, ptr.metrics_query)

\* resourceID of lines 115 and 150
ResourceID(c) ==
    IF DsGetOk(c, "q").ok
    THEN computeSLOsDataSourceIDbySearchEndpointCall(Some(DsGet(c, "q")))
    ELSE LET ptr == ListPtrs(c)
         IN  computeSLOsDataSourceIDByListEndpointCall(
                 ptr.ids, ptr.name_query, ptr.tags_query, ptr.metrics_query)

----------------------------------------------------------------------------
(* SLO data source: searchSLO and the read handler                         *)

Warning(id) ==
    [severity |-> "warning",
     summary  |-> "skipping service level objective with id", id |-> id]
Error(msg) == [severity |-> "error", summary |-> msg, id |-> ""]

\* diags.HasError()
HasError(dg) == \E i \in 1..Len(dg) : dg[i].severity = "error"

RECURSIVE PageLoop_KeepsUnparsed(_, _, _)
\* Variant of PageLoop that warns about an SLO with unknown fields and keeps it
PageLoop_KeepsUnparsed(items, slosPage, dg) ==
    IF items = <<>> THEN [slosPage |-> slosPage, diags |-> dg]
    ELSE LET slo == Head(items)
             rec == [id |-> slo.id, name |-> slo.name, type |-> slo.type]
         IN  PageLoop_KeepsUnparsed(
                 Tail(items), Append(slosPage, rec),
                 IF CheckForUnparsed(slo) THEN Append(dg, Warning(slo.id)) ELSE dg)

RECURSIVE PageLoop(_, _, _)
\* Lines 185-201: the loop over the SLOs of one page
PageLoop(items, slosPage, dg) ==
    IF items = <<>> THEN [slosPage |-> slosPage, diags |-> dg]
    ELSE LET slo == Head(items)
         IN  IF CheckForUnparsed(slo)
             THEN PageLoop(Tail(items), slosPage, Append(dg, Warning(slo.id)))
             ELSE PageLoop(Tail(items),
                           Append(slosPage,
                                  [id |-> slo.id, name |-> slo.name, type |-> slo.type]),
                           dg)

RECURSIVE Flatten(_)
\* Lines 212-216
Flatten(pages) ==
    IF pages = <<>> THEN <<>> ELSE Head(pages) \o Flatten(Tail(pages))

\* Variant of LastPageReached that stops one page early
LastPageReached_OneEarly(lastNumber, page) == lastNumber <= page + 1

\* Line 206: the test that ends the loop
LastPageReached(lastNumber, page) == lastNumber <= page

\* Lines 111-113 / 146-148 and 153-162: what the read returns and leaves in d
\* once searchSLO or listSLO has handed back (dg, slos)
ReadTail(c, oldSlos, oldId, dg, slos, resourceID) ==
    IF HasError(dg)
    THEN [ret |-> dg, slos |-> oldSlos, id |-> oldId]
    ELSE IF Len(slos) = 0 /\ errorOnNoResults(c)
         THEN [ret  |-> <<Error("your query returned no result, please try a less specific search criteria")>>,
               slos |-> oldSlos, id |-> oldId]
         ELSE [ret |-> dg, slos |-> Some(slos), id |-> resourceID]

\* The read handler up to the first API call. With q it enters searchSLO's
\* loop; without q it runs to its end: listSLO (lines 221-223) issues no call
\* and hands back (nil, nil).
dataSourceDatadogServiceLevelObjectivesRead ==
    /\ pc = "idle"
    /\ IF DsGetOk(dsCfg, "q").ok
       THEN /\ pc' = "search"
            /\ pageNumber' = 0
            /\ allSlosPages' = <<>>
            /\ diags' = <<>>
            /\ UNCHANGED <<dsCfg, dsSlos, dsId, calls, ret>>
       ELSE LET out == ReadTail(dsCfg, dsSlos, dsId, <<>>, <<>>, ResourceID(dsCfg))
            IN  /\ pc' = "done"
                /\ ret' = Some(out.ret)
                /\ dsSlos' = out.slos
                /\ dsId' = out.id
                /\ UNCHANGED <<dsCfg, pageNumber, allSlosPages, diags, calls>>
    /\ UNCHANGED <<pvars, pair>>

\* Variant of searchSLO that asks for the same page again when the call fails
searchSLO_RetriesOnError ==
    /\ pc = "search"
    /\ \E resp \in SearchResponses :
       LET params == [query       |-> DsGet(dsCfg, "q"),
                      page_size   |-> PageSize,
                      page_number |-> pageNumber]
       IN  /\ calls' = Append(calls, [api |-> "SearchSLO", params |-> params,
                                      resp |-> resp])
           /\ IF resp.err
              THEN UNCHANGED <<pc, ret, dsSlos, dsId, pageNumber, allSlosPages, diags>>
              ELSE LET pg    == PageLoop(resp.slos, <<>>, diags)
                       pages == Append(allSlosPages, pg.slosPage)
                   IN  /\ allSlosPages' = pages
                       /\ diags' = pg.diags
                       /\ IF LastPageReached(resp.last, pageNumber)
                          THEN LET out == ReadTail(dsCfg, dsSlos, dsId, pg.diags,
                                                   Flatten(pages), ResourceID(dsCfg))
                               IN  /\ pc' = "done"
                                   /\ ret' = Some(out.ret)
                                   /\ dsSlos' = out.slos
                                   /\ dsId' = out.id
                                   /\ UNCHANGED pageNumber
                          ELSE /\ pageNumber' = pageNumber + 1
                               /\ UNCHANGED <<pc, ret, dsSlos, dsId>>
    /\ UNCHANGED dsCfg
    /\ UNCHANGED <<pvars, pair>>

\* One turn of searchSLO's loop: one SearchSLO call. The turn that ends the
\* loop, or whose call fails, runs the read handler to its return.
searchSLO ==
    /\ pc = "search"
    /\ \E resp \in SearchResponses :
       LET params == [query       |-> DsGet(dsCfg, "q"),
                      page_size   |-> PageSize,
                      page_number |-> pageNumber]
       IN  /\ calls' = Append(calls, [api |-> "SearchSLO", params |-> params,
                                      resp |-> resp])
           /\ IF resp.err
              THEN LET dg  == <<Error("error querying service level objectives")>>
                       out == ReadTail(dsCfg, dsSlos, dsId, dg, <<>>, <<>>)
                   IN  /\ pc' = "done"
                       /\ ret' = Some(out.ret)
                       /\ dsSlos' = out.slos
                       /\ dsId' = out.id
                       /\ UNCHANGED <<pageNumber, allSlosPages, diags>>
              ELSE LET pg    == PageLoop(resp.slos, <<>>, diags)
                       pages == Append(allSlosPages, pg.slosPage)
                   IN  /\ allSlosPages' = pages
                       /\ diags' = pg.diags
                       /\ IF LastPageReached(resp.last, pageNumber)
                          THEN LET out == ReadTail(dsCfg, dsSlos, dsId, pg.diags,
                                                   Flatten(pages), ResourceID(dsCfg))
                               IN  /\ pc' = "done"
                                   /\ ret' = Some(out.ret)
                                   /\ dsSlos' = out.slos
                                   /\ dsId' = out.id
                                   /\ UNCHANGED pageNumber
                          ELSE /\ pageNumber' = pageNumber + 1
                               /\ UNCHANGED <<pc, ret, dsSlos, dsId>>
    /\ UNCHANGED dsCfg
    /\ UNCHANGED <<pvars, pair>>

DsIdle(configs) ==
    /\ dsCfg \in configs
    /\ dsSlos = Unset
    /\ dsId = <<>>
    /\ pc = "idle"
    /\ pageNumber = 0
    /\ allSlosPages = <<>>
    /\ diags = <<>>
    /\ calls = <<>>
    /\ ret = Unset

NoFilters ==
    [ids |-> <<>>, name_query |-> <<>>, tags_query |-> <<>>, metrics_query |-> <<>>,
     q |-> <<>>, error_on_no_results |-> Unset]

DsQuiet == DsIdle({NoFilters})

----------------------------------------------------------------------------
(* Two queries and the keys hashed into their identities                   *)

NoPair == [a |-> NoFilters, b |-> NoFilters, done |-> FALSE, ida |-> <<>>, idb |-> <<>>]

PairInit ==
    \E a \in KeyConfigs, b \in KeyConfigs :
        pair = [a |-> a, b |-> b, done |-> FALSE, ida |-> <<>>, idb |-> <<>>]

\* Both queries are read; each identity is the resourceID of its read
ComputeIdentities ==
    /\ ~pair.done
    /\ pair' = [pair EXCEPT !.done = TRUE, !.ida = ResourceID(pair.a),
                                           !.idb = ResourceID(pair.b)]
    /\ UNCHANGED <<pvars, svars>>

----------------------------------------------------------------------------
(* Specifications                                                          *)

\* The policy resource
Init == PolicyInit /\ DsQuiet /\ pair = NoPair
Next == PolicyNext
Spec == Init /\ [][Next]_vars

\* One read of the SLO data source
InitSLO == PolicyQuiet /\ DsIdle(DsConfigs) /\ pair = NoPair
NextSLO ==
    \/ dataSourceDatadogServiceLevelObjectivesRead
    \/ searchSLO
SpecSLO == InitSLO /\ [][NextSLO]_vars

\* One read with the free-text query q and no structured filter: searchSLO
\* is handed q alone (lines 106-109)
SearchConfigs ==
    {c \in DsConfigs : /\ c.q # <<>>
                       /\ c.ids = <<>>
                       /\ c.name_query = <<>>
                       /\ c.tags_query = <<>>
                       /\ c.metrics_query = <<>>}
InitSearch == PolicyQuiet /\ DsIdle(SearchConfigs) /\ pair = NoPair
SpecSearch == InitSearch /\ [][NextSLO]_vars

\* One read with the free-text query q and any of the structured filters
PrecedenceConfigs ==
    {c \in DsConfigs : c.q # <<>> /\ c.error_on_no_results = Unset}
InitPrecedence == PolicyQuiet /\ DsIdle(PrecedenceConfigs) /\ pair = NoPair
SpecPrecedence == InitPrecedence /\ [][NextSLO]_vars

\* The identities of two queries
InitKey == PolicyQuiet /\ DsQuiet /\ PairInit
NextKey == ComputeIdentities
SpecKey == InitKey /\ [][NextKey]_vars

----------------------------------------------------------------------------
(* Claims about the SLO data source                                        *)

SearchRead == dsCfg.q # <<>>

NoCallFailed == \A i \in 1..Len(calls) : ~calls[i].resp.err

RECURSIVE ConcatAll(_)
ConcatAll(seqs) == IF seqs = <<>> THEN <<>> ELSE Head(seqs) \o ConcatAll(Tail(seqs))

\* The SLOs the server returned, in the order of the calls
ItemsReturned == ConcatAll([i \in 1..Len(calls) |-> calls[i].resp.slos])

Parsed(items)   == SelectSeq(items, LAMBDA x : ~x.unparsed)
Unparsed(items) == SelectSeq(items, LAMBDA x : x.unparsed)

\* The list entries of the SLOs of items that have no unknown fields
Entries(items) ==
    [i \in 1..Len(Parsed(items)) |->
        [id   |-> Parsed(items)[i].id,
         name |-> Parsed(items)[i].name,
         type |-> Parsed(items)[i].type]]

\* C7: the search walk asks for page 0 first, with page size 100, then for the
\* pages in increasing order without repeating or skipping one; it goes on
\* exactly while the page p just fetched reports a last page number > p, and
\* ends after the first page that reports one <= p. When every page reports
\* last page number k the walk ends after k+1 requests, pages 0..k. The result
\* list is the pages' entries (see C8 for which SLOs have one) in page order.
C7_PaginationWalk ==
    SearchRead =>
        /\ \A i \in 1..Len(calls) :
              /\ calls[i].api = "SearchSLO"
              /\ calls[i].params.page_number = i - 1
              /\ calls[i].params.page_size = 100
        /\ \A i \in 1..(Len(calls) - 1) :
              ~calls[i].resp.err /\ calls[i].resp.last > i - 1
        /\ pc = "search" =>
              /\ pageNumber = Len(calls)
              /\ NoCallFailed
              /\ Len(calls) > 0 => calls[Len(calls)].resp.last > Len(calls) - 1
        /\ (pc = "done" /\ NoCallFailed) =>
              /\ Len(calls) >= 1
              /\ calls[Len(calls)].resp.last <= Len(calls) - 1
              /\ \A k \in 0..MaxLast :
                    (\A i \in 1..Len(calls) : calls[i].resp.last = k)
                        => Len(calls) = k + 1
              /\ Len(allSlosPages) = Len(calls)
              /\ \A i \in 1..Len(calls) :
                    allSlosPages[i] = Entries(calls[i].resp.slos)
              /\ ~HasError(ret.v) =>
                    dsSlos = Some(ConcatAll([i \in 1..Len(calls) |->
                                                Entries(calls[i].resp.slos)]))

C7_Witness ==
    /\ pc = "done"
    /\ Len(calls) = 2
    /\ \A i \in 1..2 : ~calls[i].resp.err /\ calls[i].resp.last = 1
    /\ calls[1].params.page_number = 0
    /\ calls[2].params.page_number = 1
    /\ calls[1].resp.slos = <<[id |-> "s1", name |-> "n1", type |-> "metric",
                               unparsed |-> FALSE]>>
    /\ dsSlos = Some(<<[id |-> "s1", name |-> "n1", type |-> "metric"],
                       [id |-> "s2", name |-> "n2", type |-> "monitor"]>>)

\* C8: in a search whose calls all succeed, every SLO with unknown fields is
\* left out of the result and yields exactly one warning that names its id;
\* every other SLO, of the same page and of the other pages, is in the result
\* exactly once, in the order the server returned them; searchSLO's
\* diagnostics hold no error.
C8_UnparsedItemsSkipped ==
    (SearchRead /\ pc \in {"search", "done"} /\ NoCallFailed) =>
        /\ Flatten(allSlosPages) = Entries(ItemsReturned)
        /\ diags = [i \in 1..Len(Unparsed(ItemsReturned)) |->
                       [severity |-> "warning",
                        summary  |-> "skipping service level objective with id",
                        id       |-> Unparsed(ItemsReturned)[i].id]]
        /\ ~HasError(diags)
        /\ (pc = "done" /\ Flatten(allSlosPages) # <<>>) =>
              /\ ret = Some(diags)
              /\ dsSlos = Some(Entries(ItemsReturned))

C8_Witness ==
    /\ pc = "done"
    /\ Len(calls) = 2
    /\ calls[1].resp.slos =
          <<[id |-> "s3", name |-> "n3", type |-> "metric", unparsed |-> TRUE],
            [id |-> "s2", name |-> "n2", type |-> "monitor", unparsed |-> FALSE]>>
    /\ calls[2].resp.slos =
          <<[id |-> "s1", name |-> "n1", type |-> "metric", unparsed |-> FALSE]>>
    /\ ret = Some(<<Warning("s3")>>)
    /\ dsSlos = Some(<<[id |-> "s2", name |-> "n2", type |-> "monitor"],
                       [id |-> "s1", name |-> "n1", type |-> "metric"]>>)

\* C9: a read whose result set is empty returns an error and sets neither slos
\* nor the identity when error_on_no_results is true or left at its default;
\* when error_on_no_results is set to false it returns no error, sets slos to
\* the empty list and sets the identity.
C9_ZeroResultPolicy ==
    (pc = "done" /\ NoCallFailed /\ ConcatAll(allSlosPages) = <<>>) =>
        IF dsCfg.error_on_no_results = Some(FALSE)
        THEN ~HasError(ret.v) /\ dsSlos = Some(<<>>) /\ dsId # <<>>
        ELSE HasError(ret.v) /\ dsSlos = Unset /\ dsId = <<>>

\* The filters a query effectively uses: q alone when it is supplied
EffectiveFilters(c) ==
    IF c.q # <<>>
    THEN [shape |-> "search", q |-> c.q]
    ELSE [shape |-> "list", ids |-> c.ids, name_query |-> c.name_query,
          tags_query |-> c.tags_query, metrics_query |-> c.metrics_query]

\* C10: two queries have the same key hashed into their identity iff their
\* effective filters are the same, also when filter values hold the separator
\* character '|'.
C10_IdentityKeyInjective ==
    pair.done =>
        ((EffectiveFilters(pair.a) = EffectiveFilters(pair.b))
            <=> (pair.ida = pair.idb))

\* A read in which at least one of ids, name_query, tags_query and
\* metrics_query is set
StructuredFiltersSet ==
    \/ dsCfg.ids # <<>>
    \/ dsCfg.name_query # <<>>
    \/ dsCfg.tags_query # <<>>
    \/ dsCfg.metrics_query # <<>>

\* The configurations that agree with c on q and error_on_no_results and
\* differ from it in ids, name_query, tags_query or metrics_query
OtherFilters(c) ==
    {c2 \in DsConfigs : /\ c2.q = c.q
                        /\ c2.error_on_no_results = c.error_on_no_results
                        /\ c2 # c}

\* The warnings for the SLOs with unknown fields among items
Warnings(items) ==
    [i \in 1..Len(Unparsed(items)) |-> Warning(Unparsed(items)[i].id)]

\* C11: when q is supplied, whatever ids, name_query, tags_query and
\* metrics_query are set to, every request of the read is a SearchSLO request
\* carrying q, the page size and the page number and nothing else, and what
\* the read returns and leaves in slos and in the identity is determined by q,
\* the zero-result flag in effect and the server's responses alone: the
\* identity is the digest of q, slos are the entries of the SLOs returned, the
\* diagnostics are the call's error, the "no result" error or the warnings.
\* Two reads
\* that agree on q and differ in the four fields only hence send the same
\* requests and, answered alike, end alike: the branch taken, the query sent,
\* the identity computed and what the handler returns once searchSLO has
\* handed back are the same for the other configuration.
C11_QTakesPrecedence ==
    SearchRead =>
        /\ pc = "idle" =>
              \A c2 \in OtherFilters(dsCfg) :
                  /\ DsGetOk(c2, "q") = DsGetOk(dsCfg, "q")
                  /\ ResourceID(c2) = ResourceID(dsCfg)
                  /\ \A dg \in {<<>>, <<Warning("s3")>>, <<Error("e")>>},
                        slos \in {<<>>, <<[id |-> "s1", name |-> "n1", type |-> "metric"]>>} :
                        ReadTail(c2, dsSlos, dsId, dg, slos, ResourceID(c2))
                          = ReadTail(dsCfg, dsSlos, dsId, dg, slos, ResourceID(dsCfg))
        /\ \A i \in 1..Len(calls) :
              /\ calls[i].api = "SearchSLO"
              /\ calls[i].params = [query |-> dsCfg.q, page_size |-> 100,
                                    page_number |-> i - 1]
        /\ pc = "idle" => (calls = <<>> /\ ret = Unset)
        /\ pc # "done" => (dsSlos = Unset /\ dsId = <<>> /\ ret = Unset)
        /\ pc = "done" =>
              LET entries == Entries(ItemsReturned)
              IN  IF ~NoCallFailed
                  THEN /\ ret = Some(<<Error("error querying service level objectives")>>)
                       /\ dsSlos = Unset
                       /\ dsId = <<>>
                  ELSE IF entries = <<>> /\ errorOnNoResults(dsCfg)
                  THEN /\ HasError(ret.v) /\ Len(ret.v) = 1
                       /\ dsSlos = Unset
                       /\ dsId = <<>>
                  ELSE /\ ret = Some(Warnings(ItemsReturned))
                       /\ dsSlos = Some(entries)
                       /\ dsId = Sha256Hex(dsCfg.q)

C11_Witness ==
    /\ pc = "done"
    /\ StructuredFiltersSet
    /\ dsCfg.q = <<"a">>
    /\ dsCfg.ids = << <<"a">> >>
    /\ dsCfg.name_query = <<"a">>
    /\ dsCfg.tags_query = <<"a">>
    /\ dsCfg.metrics_query = <<"a">>
    /\ Len(calls) = 2
    /\ dsSlos = Some(<<[id |-> "s1", name |-> "n1", type |-> "metric"]>>)
    /\ dsId = Sha256Hex(<<"a">>)

\* The ListSLOs parameters that carry exactly the structured filters c sets
FiltersSet(c) ==
    [ids           |-> IF c.ids = <<>> THEN Unset ELSE Some(Join(c.ids, <<",">>)),
     name_query    |-> IF c.name_query = <<>> THEN Unset ELSE Some(c.name_query),
     tags_query    |-> IF c.tags_query = <<>> THEN Unset ELSE Some(c.tags_query),
     metrics_query |-> IF c.metrics_query = <<>> THEN Unset ELSE Some(c.metrics_query)]

\* C12: a read without q issues one ListSLOs call that carries exactly the
\* structured filters that are set; when the call succeeds, slos holds the
\* SLOs it returned, and when it returned at least one the read returns no
\* error and slos is not empty.
C12_ListReadCallsListSLOs ==
    (~SearchRead /\ pc = "done") =>
        /\ Len(calls) = 1
        /\ calls[1].api = "ListSLOs"
        /\ calls[1].params = FiltersSet(dsCfg)
        /\ (~calls[1].resp.err /\ ~HasError(ret.v)) =>
              /\ dsSlos.set
              /\ Len(dsSlos.v) = Len(calls[1].resp.slos)
              /\ \A i \in 1..Len(dsSlos.v) : dsSlos.v[i].id = calls[1].resp.slos[i].id
        /\ (~calls[1].resp.err /\ calls[1].resp.slos # <<>>) =>
              /\ ~HasError(ret.v)
              /\ dsSlos.set
              /\ dsSlos.v # <<>>

\* C13: in the search walk every call asks for a page number no earlier call
\* asked for, and no call follows a failed one: the call that fails ends the
\* read at once with the error diagnostic of the failed query, and slos and
\* the identity stay unset.
C13_NoRetryAfterError ==
    [][SearchRead =>
        /\ calls' # calls =>
              /\ NoCallFailed
              /\ Len(calls') = Len(calls) + 1
              /\ \A i \in 1..Len(calls) :
                    /\ calls'[i] = calls[i]
                    /\ calls[i].params.page_number
                          # calls'[Len(calls')].params.page_number
              /\ calls'[Len(calls')].resp.err =>
                    /\ pc' = "done"
                    /\ ret' = Some(<<Error("error querying service level objectives")>>)
                    /\ dsSlos' = Unset
                    /\ dsId' = <<>>
        /\ ~NoCallFailed => calls' = calls
      ]_svars

C13_Witness ==
    /\ SearchRead
    /\ pc = "done"
    /\ Len(calls) = 2
    /\ ~calls[1].resp.err
    /\ calls[1].resp.slos # <<>>
    /\ calls[2].params.page_number = 1
    /\ calls[2].resp.err
    /\ HasError(ret.v)
    /\ dsSlos = Unset
    /\ dsId = <<>>

====
